---- MODULE Spec2Model ----
(***************************************************************************)
(* Model of web/pgadmin/browser/server_groups/servers/databases/schemas/   *)
(* utils.py: the VacuumSettings cache (a class-level dictionary shared by  *)
(* every request thread), and the pure helpers trigger_definition,         *)
(* parse_rule_definition and DataTypeReader's get_types, get_full_type,    *)
(* parse_type_name and parse_length_precision.                             *)
(*                                                                         *)
(* Python objects are modelled with their identity: the inner dictionaries *)
(* of VacuumSettings.vacuum_settings and the row lists are heap cells, so  *)
(* that aliasing (the cached list is the returned list) and the effect of  *)
(* copy.deepcopy are visible.  An object made during a call is named by    *)
(* the number of that call.  A call's arguments and local variables live   *)
(* as long as the call does.                                               *)
(***************************************************************************)
EXTENDS Integers, Sequences, FiniteSets, TLC

VARIABLES
    vacuum_settings, \* VacuumSettings.vacuum_settings: sid -> inner dict id, 0 = no key
    dicts,           \* heap of inner dicts: id -> (setting_type -> list id, 0 = no key)
    lists,           \* heap of row lists: id -> sequence of row records
    pc,              \* per thread: the line of the call it stands before
    args,            \* per thread: the call's arguments
    loc,             \* per thread: the call's local variables
    ret,             \* per thread: what its last finished call returned or raised
    queries,         \* per (sid, setting_type): conn.execute_dict calls issued
    ncalls,          \* calls started so far
    fn               \* the pure-function call under evaluation (other specifications)

vars == <<vacuum_settings, dicts, lists, pc, args, loc, ret, queries,
          ncalls, fn>>

vacuumVars == <<vacuum_settings, dicts, lists, pc, args, loc, ret, queries,
                ncalls>>

---------------------------------------------------------------------------
(* Bounds and input sets                                                   *)

(* Calls started in a run: one request at a time, interleaved requests,    *)
(* and one request at a time with every observed-values mapping            *)
MaxCalls == 3
MaxRaceCalls == 2
MaxParseCalls == 2

Threads == {1, 2}
Sids == {1, 2}
Types == {"table", "toast"}

DictIds == 1..(MaxCalls + MaxRaceCalls + MaxParseCalls)
ListIds == DictIds

(* Python values of differing types, kept comparable                        *)
None == [k |-> "None"]
PyInt(i) == [k |-> "int", i |-> i]

---------------------------------------------------------------------------
(* vacuum_settings/vacuum_fields.json: setting -> <<name, label, type>>    *)

VacuumFields ==
    [ty \in Types |->
        [s \in {"autovacuum_analyze_scale_factor", "autovacuum_analyze_threshold"} |->
            IF s = "autovacuum_analyze_scale_factor"
            THEN <<"autovacuum_analyze_scale_factor", "ANALYZE scale factor", "number">>
            ELSE <<"autovacuum_analyze_threshold", "ANALYZE base threshold", "integer">>]]

(* What vacuum_defaults.sql can answer: one row per requested setting, in   *)
(* name order, with the server's current default.                           *)
DbRow(s, v) == [name |-> s, setting |-> v]

DbAnswers ==
    { <<DbRow("autovacuum_analyze_scale_factor", sf),
        DbRow("autovacuum_analyze_threshold", 50)>> : sf \in {1, 2} }

(* A float, as Python sees it: integral part and the tenths after the point *)
PyFloat(i, f) == [k |-> "float", i |-> i, f |-> f]

ObservedVals == {None, PyFloat(1, 0), PyFloat(0, 5)}

ObservedKeys == {"autovacuum_analyze_scale_factor",
                 "toast_autovacuum_analyze_threshold"}

(* The observed-values mappings handed to parse_vacuum_data: a key may be   *)
(* missing, hold None, or hold a number.                                    *)
Observed ==
    UNION { [ks -> ObservedVals] : ks \in SUBSET ObservedKeys }

(* The mapping the specifications that are not about the parsed values     *)
(* draw from                                                               *)
ObservedFew ==
    { m \in Observed :
        DOMAIN m = ObservedKeys /\ \A key \in DOMAIN m : m[key] = PyFloat(0, 5) }

---------------------------------------------------------------------------
(* Return values                                                           *)

NoReturn == [k |-> "none"]
RetList(id) == [k |-> "list", id |-> id]
RetRows(rows) == [k |-> "rows", rows |-> rows]
RetResponse == [k |-> "internal_server_error"]
Raised(exc) == [k |-> "raise", exc |-> exc]

IdleArgs == [op |-> "none", sid |-> 0, type |-> "table", result |-> <<>>]
IdleLoc == [call |-> 0, res |-> 0, ref |-> 0, fetched |-> NoReturn]

Key(t) == <<args[t].sid, args[t].type>>

(* VacuumSettings.vacuum_settings[sid][setting_type], 0 when either key is  *)
(* missing                                                                 *)
Cached(sid, ty) ==
    IF vacuum_settings[sid] = 0 THEN 0 ELSE dicts[vacuum_settings[sid]][ty]

---------------------------------------------------------------------------
(* fetch_default_vacuum_settings, one step per access to shared state      *)

(* lines 588-592: the rows renamed and labelled from vacuum_fields          *)
BuildRows(setting_type, rows) ==
    [i \in 1..Len(rows) |->
        [name |-> VacuumFields[setting_type][rows[i].name][1],
         setting |-> rows[i].setting,
         label |-> VacuumFields[setting_type][rows[i].name][2],
         column_type |-> VacuumFields[setting_type][rows[i].name][3]]]

(* The end of fetch_default_vacuum_settings with value v: back to the       *)
(* caller, which is the request handler or line 631 of parse_vacuum_data.   *)
FetchReturns(t, v) ==
    IF args[t].op = "fetch"
    THEN /\ pc' = [pc EXCEPT ![t] = "idle"]
         /\ ret' = [ret EXCEPT ![t] = v]
         /\ loc' = [loc EXCEPT ![t] = IdleLoc]
         /\ args' = [args EXCEPT ![t] = IdleArgs]
    ELSE /\ pc' = [pc EXCEPT ![t] = "l631"]
         /\ loc' = [loc EXCEPT ![t].fetched = v]
         /\ UNCHANGED <<ret, args>>

(* A request thread enters fetch_default_vacuum_settings(conn, sid, type)   *)
(* or parse_vacuum_data(conn, result, type) with manager.sid = sid.         *)
Call(t, op, sid, ty, result, max) ==
    /\ pc[t] = "idle"
    /\ ncalls < max
    /\ ncalls' = ncalls + 1
    /\ args' = [args EXCEPT ![t] = [op |-> op, sid |-> sid, type |-> ty,
                                    result |-> result]]
    /\ pc' = [pc EXCEPT ![t] = "l568"]
    /\ ret' = [ret EXCEPT ![t] = NoReturn]
    /\ loc' = [loc EXCEPT ![t] = [IdleLoc EXCEPT !.call = ncalls + 1]]
    /\ UNCHANGED <<vacuum_settings, dicts, lists, queries, fn>>

CallFetch(t, max) ==
    \E sid \in Sids, ty \in Types : Call(t, "fetch", sid, ty, <<>>, max)

CallParse(t, observed, max) ==
    \E sid \in Sids, ty \in Types, result \in observed :
        Call(t, "parse", sid, ty, result, max)

(* line 568: if sid in VacuumSettings.vacuum_settings                       *)
SidInSettings(t) == vacuum_settings[args[t].sid] # 0

L568(t) ==
    /\ pc[t] = "l568"
    /\ pc' = [pc EXCEPT ![t] = IF SidInSettings(t) THEN "l569" ELSE "l572"]
    /\ UNCHANGED <<vacuum_settings, dicts, lists, args, loc, ret, queries,
                   ncalls, fn>>

(* The membership test made on the outer, sid-keyed dictionary             *)
TypeInOuterDict(t) ==
    \E sid \in Sids : vacuum_settings[sid] # 0 /\ ToString(sid) = args[t].type

(* line 569: if setting_type in VacuumSettings.vacuum_settings[sid]         *)
TypeInSettings(t) == dicts[vacuum_settings[args[t].sid]][args[t].type] # 0

L569(t) ==
    /\ pc[t] = "l569"
    /\ pc' = [pc EXCEPT ![t] = IF TypeInSettings(t) THEN "l570" ELSE "l584"]
    /\ UNCHANGED <<vacuum_settings, dicts, lists, args, loc, ret, queries,
                   ncalls, fn>>

(* lines 570 and 595: return VacuumSettings.vacuum_settings[sid][type],     *)
(* read again through the class attribute; a missing key raises KeyError    *)
ReadSettings(t) ==
    IF Cached(args[t].sid, args[t].type) # 0
    THEN RetList(Cached(args[t].sid, args[t].type))
    ELSE Raised("KeyError")

L570(t) ==
    /\ pc[t] = "l570"
    /\ FetchReturns(t, ReadSettings(t))
    /\ UNCHANGED <<vacuum_settings, dicts, lists, queries, ncalls, fn>>

(* line 572: VacuumSettings.vacuum_settings[sid] = {}                       *)
L572(t) ==
    /\ pc[t] = "l572"
    /\ vacuum_settings' = [vacuum_settings EXCEPT ![args[t].sid] = loc[t].call]
    /\ pc' = [pc EXCEPT ![t] = "l584"]
    /\ UNCHANGED <<dicts, lists, args, loc, ret, queries, ncalls, fn>>

(* lines 575-592: the query is issued; on failure the error response is     *)
(* returned, on success the rows are renamed in place                       *)
IssueQuery(t) ==
    /\ pc[t] = "l584"
    /\ queries' = [queries EXCEPT ![Key(t)] = @ + 1]
    /\ \/ /\ FetchReturns(t, RetResponse)
          /\ UNCHANGED lists
       \/ \E rows \in DbAnswers :
            /\ lists' = [lists EXCEPT ![loc[t].call] = BuildRows(args[t].type, rows)]
            /\ loc' = [loc EXCEPT ![t].res = loc[t].call]
            /\ pc' = [pc EXCEPT ![t] = "l594"]
            /\ UNCHANGED <<ret, args>>
    /\ UNCHANGED <<vacuum_settings, dicts, ncalls, fn>>

(* The query held back while another call holds rows for the same sid      *)
L584Exclusive(t) ==
    /\ \A u \in Threads \ {t} :
          ~(pc[u] \in {"l594", "l594s"} /\ args[u].sid = args[t].sid)
    /\ IssueQuery(t)

(* The query with its failure kept: an empty list is stored under the key  *)
L584CachesFailure(t) ==
    /\ pc[t] = "l584"
    /\ queries' = [queries EXCEPT ![Key(t)] = @ + 1]
    /\ \/ /\ FetchReturns(t, RetResponse)
          /\ dicts' = [dicts EXCEPT ![vacuum_settings[args[t].sid]][args[t].type] =
                                        loc[t].call]
          /\ UNCHANGED lists
       \/ \E rows \in DbAnswers :
            /\ lists' = [lists EXCEPT ![loc[t].call] = BuildRows(args[t].type, rows)]
            /\ loc' = [loc EXCEPT ![t].res = loc[t].call]
            /\ pc' = [pc EXCEPT ![t] = "l594"]
            /\ UNCHANGED <<ret, args, dicts>>
    /\ UNCHANGED <<vacuum_settings, ncalls, fn>>

L584(t) == IssueQuery(t)

(* line 594, first half: VacuumSettings.vacuum_settings[sid] is loaded      *)
L594(t) ==
    /\ pc[t] = "l594"
    /\ loc' = [loc EXCEPT ![t].ref = vacuum_settings[args[t].sid]]
    /\ pc' = [pc EXCEPT ![t] = "l594s"]
    /\ UNCHANGED <<vacuum_settings, dicts, lists, args, ret, queries, ncalls, fn>>

(* line 594, second half: [setting_type] = res['rows'] on the loaded dict   *)
L594s(t) ==
    /\ pc[t] = "l594s"
    /\ dicts' = [dicts EXCEPT ![loc[t].ref][args[t].type] = loc[t].res]
    /\ pc' = [pc EXCEPT ![t] = "l595"]
    /\ UNCHANGED <<vacuum_settings, lists, args, loc, ret, queries, ncalls, fn>>

L595(t) ==
    /\ pc[t] = "l595"
    /\ FetchReturns(t, ReadSettings(t))
    /\ UNCHANGED <<vacuum_settings, dicts, lists, queries, ncalls, fn>>

---------------------------------------------------------------------------
(* parse_vacuum_data                                                       *)

(* int(value) whatever the fraction                                         *)
CoerceTruncates(value) == PyInt(value.i)

(* lines 639-640: float(result[row_name]), then int(value) when             *)
(* value % 1 == 0                                                          *)
Coerce(value) == IF value.f = 0 THEN PyInt(value.i) ELSE value

(* lines 635-637 *)
RowName(row, type) ==
    IF type = "toast" THEN "toast_" \o row.name ELSE row.name

(* result.get(row_name, None) *)
Get(result, key) == IF key \in DOMAIN result THEN result[key] ELSE None

(* lines 635-642, one row *)
ParseRow(row, result, type) ==
    IF Get(result, RowName(row, type)) # None
    THEN [f \in DOMAIN row \cup {"value"} |->
            IF f = "value" THEN Coerce(result[RowName(row, type)]) ELSE row[f]]
    ELSE [f \in DOMAIN row \ {"value"} |-> row[f]]

(* The list a deepcopy makes: private to the call that made it             *)
PrivateList == 0

(* No copy: the caller works on the list it was handed                     *)
NoCopy(src, fresh) == src

(* copy.deepcopy(src): the list the caller goes on to work with, given     *)
(* the new list the copy makes                                             *)
deepcopy(src, fresh) == fresh

(* lines 634-642 on the list tmp of heap h *)
ParseLoop(h, tmp, result, type) ==
    [h EXCEPT ![tmp] = [i \in 1..Len(h[tmp]) |-> ParseRow(h[tmp][i], result, type)]]

(* lines 631-644; the list the copy made leaves with the caller.  An error  *)
(* response or an exception from the fetch has no rows to walk.            *)
L631(t) ==
    /\ pc[t] = "l631"
    /\ IF loc[t].fetched.k = "list"
       THEN LET src == loc[t].fetched.id
                copied == (PrivateList :> lists[src]) @@ lists
                tmp == deepcopy(src, PrivateList)
                after == ParseLoop(copied, tmp, args[t].result, args[t].type)
            IN /\ ret' = [ret EXCEPT ![t] = RetRows(after[tmp])]
               /\ lists' = [id \in ListIds |-> after[id]]
       ELSE /\ ret' = [ret EXCEPT ![t] =
                          IF loc[t].fetched.k = "raise" THEN loc[t].fetched
                          ELSE Raised("TypeError")]
            /\ UNCHANGED lists
    /\ pc' = [pc EXCEPT ![t] = "idle"]
    /\ loc' = [loc EXCEPT ![t] = IdleLoc]
    /\ args' = [args EXCEPT ![t] = IdleArgs]
    /\ UNCHANGED <<vacuum_settings, dicts, queries, ncalls, fn>>

---------------------------------------------------------------------------
NoFn == [f |-> "none"]

VacuumInit ==
    /\ vacuum_settings = [s \in Sids |-> 0]
    /\ dicts = [d \in DictIds |-> [ty \in Types |-> 0]]
    /\ lists = [l \in ListIds |-> <<>>]
    /\ pc = [t \in Threads |-> "idle"]
    /\ args = [t \in Threads |-> IdleArgs]
    /\ loc = [t \in Threads |-> IdleLoc]
    /\ ret = [t \in Threads |-> NoReturn]
    /\ queries = [key \in Sids \X Types |-> 0]
    /\ ncalls = 0

Init == VacuumInit /\ fn = NoFn

Step(t) ==
    \/ L568(t) \/ L569(t) \/ L570(t) \/ L572(t) \/ L584(t)
    \/ L594(t) \/ L594s(t) \/ L595(t) \/ L631(t)

(* Request threads of one process, interleaved at every shared access      *)
Next ==
    \E t \in Threads :
        \/ CallFetch(t, MaxRaceCalls)
        \/ CallParse(t, ObservedFew, MaxRaceCalls)
        \/ Step(t)

Spec == Init /\ [][Next]_vars

(* One request at a time                                                   *)
AllIdle == \A t \in Threads : pc[t] = "idle"

NextSeq ==
    \E t \in Threads :
        \/ AllIdle /\ CallFetch(t, MaxCalls)
        \/ AllIdle /\ CallParse(t, ObservedFew, MaxCalls)
        \/ Step(t)

SpecSeq == Init /\ [][NextSeq]_vars

(* One request at a time, every observed-values mapping                    *)
NextParse ==
    \E t \in Threads :
        \/ AllIdle /\ CallFetch(t, MaxParseCalls)
        \/ AllIdle /\ CallParse(t, Observed, MaxParseCalls)
        \/ Step(t)

SpecParse == Init /\ [][NextParse]_vars

---------------------------------------------------------------------------
(* Properties of the vacuum settings cache                                 *)

Keys == Sids \X Types

Returns(t) == pc[t] # "idle" /\ pc'[t] = "idle"

(* Cached(sid, ty) in the next state                                       *)
CachedNext(sid, ty) ==
    IF vacuum_settings'[sid] = 0 THEN 0 ELSE dicts'[vacuum_settings'[sid]][ty]

(* C1: one request at a time, once a record list is stored under           *)
(* (sid, setting_type) no step issues another query for that key, the key  *)
(* keeps the same list with the same rows, and every fetch for the key     *)
(* returns that list.                                                      *)
Memoized ==
    [][\A key \in Keys :
          Cached(key[1], key[2]) # 0 =>
            /\ queries'[key] = queries[key]
            /\ CachedNext(key[1], key[2]) = Cached(key[1], key[2])
            /\ lists'[Cached(key[1], key[2])] = lists[Cached(key[1], key[2])]
            /\ \A t \in Threads :
                 (Returns(t) /\ args[t].op = "fetch" /\ Key(t) = key)
                   => ret'[t] = RetList(Cached(key[1], key[2]))]_vars

(* Two fetches of (1, "table") in a row were answered with the same list   *)
(* off a single query.                                                     *)
MemoizedWitness ==
    /\ AllIdle
    /\ Cached(1, "table") # 0
    /\ \A t \in Threads : ret[t] = RetList(Cached(1, "table"))
    /\ queries[<<1, "table">>] = 1

(* C2: under every interleaving, a record list once stored under            *)
(* (sid, category) is still stored under that key in the next state.        *)
CacheRetained ==
    [][\A key \in Keys :
          Cached(key[1], key[2]) # 0 =>
             CachedNext(key[1], key[2]) = Cached(key[1], key[2])]_vars

(* C3: the calls are not synchronized: a call under way can always take    *)
(* its next step whatever the other calls are doing, and every call that   *)
(* found its key absent issues a query of its own for it; so two           *)
(* overlapping first requests for one key issue two queries.               *)
Unsynchronized ==
    /\ [](\A t \in Threads : pc[t] # "idle" => ENABLED Step(t))
    /\ [][\A t \in Threads :
            (pc[t] = "l584" /\ pc'[t] # "l584")
               => queries'[Key(t)] = queries[Key(t)] + 1]_vars

(* Both threads found (sid, type) absent and each has issued the query     *)
RaceWitness ==
    /\ \A t \in Threads : pc[t] = "l594"
    /\ Key(1) = Key(2)
    /\ queries[Key(1)] = 2

(* C4: parse_vacuum_data leaves the cache as the fetch inside it left it:   *)
(* the key holds the list the fetch returned and that list holds the same  *)
(* rows, each with its name, label, column_type and setting.               *)
ParseKeepsCache ==
    [][\A t \in Threads :
          (pc[t] = "l631" /\ Returns(t) /\ loc[t].fetched.k = "list") =>
             /\ CachedNext(args[t].sid, args[t].type) = loc[t].fetched.id
             /\ lists'[loc[t].fetched.id] = lists[loc[t].fetched.id]
             /\ \A i \in 1..Len(lists'[loc[t].fetched.id]) :
                   DOMAIN lists'[loc[t].fetched.id][i] =
                      {"name", "label", "column_type", "setting"}]_vars

(* A parse has returned rows carrying an observed value while the cached   *)
(* rows carry none                                                         *)
ParseKeepsCacheWitness ==
    \E t \in Threads, key \in Keys :
        /\ pc[t] = "idle"
        /\ ret[t].k = "rows"
        /\ \E i \in 1..Len(ret[t].rows) : "value" \in DOMAIN ret[t].rows[i]
        /\ Cached(key[1], key[2]) # 0
        /\ \A i \in 1..Len(lists[Cached(key[1], key[2])]) :
              "value" \notin DOMAIN lists[Cached(key[1], key[2])][i]

(* C5: the rows parse_vacuum_data returns are the cached rows in order;     *)
(* a row's value is the observed number under its name (with "toast_" put  *)
(* before it for type toast), an int when the fraction is zero and the     *)
(* float otherwise; a row whose key is missing or None has no value.       *)
ParseValues ==
    [][\A t \in Threads :
          (pc[t] = "l631" /\ Returns(t) /\ loc[t].fetched.k = "list") =>
             LET rows == lists[loc[t].fetched.id]
                 out == ret'[t].rows
                 observed == args[t].result
                 key(i) == IF args[t].type = "toast"
                           THEN "toast_" \o rows[i].name ELSE rows[i].name
             IN /\ ret'[t].k = "rows"
                /\ Len(out) = Len(rows)
                /\ \A i \in 1..Len(rows) :
                     /\ \A f \in DOMAIN rows[i] \ {"value"} :
                           f \in DOMAIN out[i] /\ out[i][f] = rows[i][f]
                     /\ IF key(i) \in DOMAIN observed /\ observed[key(i)] # None
                        THEN /\ "value" \in DOMAIN out[i]
                             /\ observed[key(i)].f = 0
                                  => out[i].value = PyInt(observed[key(i)].i)
                             /\ observed[key(i)].f # 0
                                  => out[i].value = observed[key(i)]
                        ELSE "value" \notin DOMAIN out[i]]_vars

(* One parse returned a fractional value, another an int and a row with    *)
(* no value                                                                *)
ParseValuesWitness ==
    /\ ret[1].k = "rows" /\ ret[2].k = "rows"
    /\ "value" \in DOMAIN ret[1].rows[1]
    /\ ret[1].rows[1].value = PyFloat(0, 5)
    /\ "value" \notin DOMAIN ret[2].rows[1]
    /\ "value" \in DOMAIN ret[2].rows[2]
    /\ ret[2].rows[2].value = PyInt(1)

(* C16: when the query of a fetch for an uncached (sid, setting_type)       *)
(* fails, the call gets the error response, nothing is stored under the    *)
(* key, the lists stored under the other keys stay as they are, and a call *)
(* that finds nothing stored under its key goes on to the query; what a    *)
(* call reads from the cache is a stored list, never the error response.   *)
FailedFetchNotCached ==
    [][\A t \in Threads :
          /\ (pc[t] = "l584" /\ pc'[t] \in {"idle", "l631"}) =>
                /\ args[t].op = "fetch" => ret'[t] = RetResponse
                /\ args[t].op = "parse" => loc'[t].fetched = RetResponse
                /\ CachedNext(args[t].sid, args[t].type) = 0
                /\ \A key \in Keys \ {Key(t)} :
                      /\ CachedNext(key[1], key[2]) = Cached(key[1], key[2])
                      /\ Cached(key[1], key[2]) # 0 =>
                            lists'[Cached(key[1], key[2])] =
                               lists[Cached(key[1], key[2])]
          /\ (pc[t] \in {"l568", "l569", "l572"}
                 /\ Cached(args[t].sid, args[t].type) = 0) =>
                pc'[t] \in {"l569", "l572", "l584"}
          /\ (pc[t] \in {"l570", "l595"} /\ pc'[t] \in {"idle", "l631"}) =>
                /\ args[t].op = "fetch" => ret'[t].k = "list"
                /\ args[t].op = "parse" => loc'[t].fetched.k = "list"]_vars

(* The fetch of (1, "table") by thread 1 failed; the fetch of the same key *)
(* by thread 2 after it queried again and returned the list it stored      *)
FailedFetchNotCachedWitness ==
    /\ AllIdle
    /\ ncalls = 2
    /\ ret[1] = RetResponse
    /\ ret[2] = RetList(Cached(1, "table"))
    /\ Cached(1, "table") # 0
    /\ queries = [key \in Keys |-> IF key = <<1, "table">> THEN 2 ELSE 0]

---------------------------------------------------------------------------
(* Python's integer and string operations                                  *)

(* a & b for b >= 0, a of either sign (two's complement, unbounded) *)
RECURSIVE BitAnd(_, _)
BitAnd(a, b) ==
    IF b = 0 THEN 0
    ELSE (a % 2) * (b % 2) + 2 * BitAnd(a \div 2, b \div 2)

(* a << n and a >> n *)
Shl(a, n) == a * 2^n
Shr(a, n) == a \div 2^n

(* bool(x) of an int *)
Truthy(x) == x # 0

(* An optional argument: <<>> is None, <<v>> is v *)
NoneOpt == <<>>
Some(v) == <<v>>

(* A returned str *)
Str(v) == [k |-> "str", v |-> v]

(* s.find(sub): the lowest index sub starts at, -1 when there is none *)
Find(s, sub) ==
    LET hits == {i \in 0..(Len(s) - Len(sub)) :
                    SubSeq(s, i + 1, i + Len(sub)) = sub}
    IN IF hits = {} THEN -1
       ELSE CHOOSE i \in hits : \A j \in hits : i <= j

StartsWith(s, p) == Len(p) <= Len(s) /\ SubSeq(s, 1, Len(p)) = p
EndsWith(s, p) == Len(p) <= Len(s) /\ SubSeq(s, Len(s) - Len(p) + 1, Len(s)) = p

(* s[i] for i >= 0 *)
Item(s, i) ==
    IF i < Len(s) THEN Str(SubSeq(s, i + 1, i + 1)) ELSE Raised("IndexError")

(* s[i:] and s[:-n] *)
From(s, i) == SubSeq(s, i + 1, Len(s))
DropLast(s, n) == SubSeq(s, 1, Len(s) - n)

---------------------------------------------------------------------------
(* trigger_definition                                                      *)

TRIGGER_TYPE_ROW == Shl(1, 0)
TRIGGER_TYPE_BEFORE == Shl(1, 1)
TRIGGER_TYPE_INSERT == Shl(1, 2)
TRIGGER_TYPE_DELETE == Shl(1, 3)
TRIGGER_TYPE_UPDATE == Shl(1, 4)
TRIGGER_TYPE_TRUNCATE == Shl(1, 5)
TRIGGER_TYPE_INSTEAD == Shl(1, 6)

(* The branches of lines 446-451 taken in the other order                  *)
FiresInsteadFirst(tgtype) ==
    IF Truthy(BitAnd(tgtype, TRIGGER_TYPE_INSTEAD)) THEN "INSTEAD OF"
    ELSE IF Truthy(BitAnd(tgtype, TRIGGER_TYPE_BEFORE)) THEN "BEFORE"
    ELSE "AFTER"

(* lines 446-451 *)
Fires(tgtype) ==
    IF Truthy(BitAnd(tgtype, TRIGGER_TYPE_BEFORE)) THEN "BEFORE"
    ELSE IF Truthy(BitAnd(tgtype, TRIGGER_TYPE_INSTEAD)) THEN "INSTEAD OF"
    ELSE "AFTER"

(* lines 446-470: data with the decoded fields set *)
trigger_definition(data) ==
    [f \in DOMAIN data \cup {"fires", "is_row_trigger", "evnt_insert",
                             "evnt_delete", "evnt_update", "evnt_truncate"} |->
        CASE f = "fires" -> Fires(data.tgtype)
          [] f = "is_row_trigger" -> Truthy(BitAnd(data.tgtype, TRIGGER_TYPE_ROW))
          [] f = "evnt_insert" -> Truthy(BitAnd(data.tgtype, TRIGGER_TYPE_INSERT))
          [] f = "evnt_delete" -> Truthy(BitAnd(data.tgtype, TRIGGER_TYPE_DELETE))
          [] f = "evnt_update" -> Truthy(BitAnd(data.tgtype, TRIGGER_TYPE_UPDATE))
          [] f = "evnt_truncate" -> Truthy(BitAnd(data.tgtype, TRIGGER_TYPE_TRUNCATE))
          [] OTHER -> data[f]]

MaxTgtype == 127

TriggerCalls ==
    { [f |-> "trigger_definition", done |-> FALSE,
       data |-> [tgtype |-> n, name |-> "trg"], out |-> NoReturn] :
         n \in 0..MaxTgtype }

ApplyTrigger ==
    /\ fn.f = "trigger_definition"
    /\ ~fn.done
    /\ fn' = [fn EXCEPT !.done = TRUE, !.out = trigger_definition(fn.data)]
    /\ UNCHANGED vacuumVars

InitTrigger == VacuumInit /\ fn \in TriggerCalls

SpecTrigger == InitTrigger /\ [][ApplyTrigger]_vars

(* C6: fires is BEFORE when bit 1 of tgtype is set, else INSTEAD OF when    *)
(* bit 6 is set, else AFTER; is_row_trigger, evnt_insert, evnt_delete,     *)
(* evnt_update and evnt_truncate are bits 0, 2, 3, 4 and 5; tgtype and the *)
(* other fields of data are as they were.                                  *)
TriggerDecoded ==
    (fn.f = "trigger_definition" /\ fn.done) =>
        LET n == fn.data.tgtype
            bit(i) == (n \div 2^i) % 2 = 1
        IN /\ fn.out.fires = IF bit(1) THEN "BEFORE"
                             ELSE IF bit(6) THEN "INSTEAD OF" ELSE "AFTER"
           /\ fn.out.is_row_trigger = bit(0)
           /\ fn.out.evnt_insert = bit(2)
           /\ fn.out.evnt_delete = bit(3)
           /\ fn.out.evnt_update = bit(4)
           /\ fn.out.evnt_truncate = bit(5)
           /\ fn.out.tgtype = n
           /\ fn.out.name = fn.data.name

(* BEFORE and INSTEAD both set, with ROW and INSERT: decoded as BEFORE      *)
TriggerDecodedWitness ==
    /\ fn.f = "trigger_definition" /\ fn.done
    /\ fn.data.tgtype = 64 + 4 + 2 + 1
    /\ fn.out.fires = "BEFORE"
    /\ fn.out.is_row_trigger /\ fn.out.evnt_insert /\ ~fn.out.evnt_delete

---------------------------------------------------------------------------
(* DataTypeReader.get_full_type                                            *)

(* pgadmin/utils/constants.py *)
DATATYPE_TIME_WITH_TIMEZONE == "time with time zone"
DATATYPE_TIME_WITHOUT_TIMEZONE == "time without time zone"
DATATYPE_TIMESTAMP_WITH_TIMEZONE == "timestamp with time zone"
DATATYPE_TIMESTAMP_WITHOUT_TIMEZONE == "timestamp without time zone"

(* line 243 without the offset of 4 *)
NumericPrecNoOffset(typmod) == BitAnd(typmod, 65535)

(* lines 242-243 *)
NumericLen(typmod) == Shr(typmod - 4, 16)
NumericPrec(typmod) == BitAnd(typmod - 4, 65535)

(* lines 260-262 *)
DirectLen(typmod) == typmod

(* lines 265-269: str(_len), '' standing for a length above 6 *)
IntervalLen(typmod) ==
    IF BitAnd(typmod, 65535) > 6 THEN "" ELSE ToString(BitAnd(typmod, 65535))

(* lines 240-282 *)
_check_typmod(typmod, name) ==
    LET length ==
          IF name = "numeric"
          THEN "(" \o ToString(NumericLen(typmod)) \o ","
                   \o ToString(NumericPrec(typmod))
          ELSE IF name \in {"time", "timetz",
                            DATATYPE_TIME_WITHOUT_TIMEZONE,
                            DATATYPE_TIME_WITH_TIMEZONE,
                            "timestamp", "timestamptz",
                            DATATYPE_TIMESTAMP_WITHOUT_TIMEZONE,
                            DATATYPE_TIMESTAMP_WITH_TIMEZONE,
                            "bit", "bit varying", "varbit"}
          THEN "(" \o ToString(DirectLen(typmod))
          ELSE IF name = "interval"
          THEN "(" \o IntervalLen(typmod)
          ELSE IF name = "date"
          THEN ""
          ELSE "(" \o ToString(typmod - 4)
    IN IF length # "" THEN length \o ")" ELSE length

(* Line 305 for every name *)
PlainFullTypeValue(name, schema, length, array) == name \o length \o array

(* lines 294-305 *)
_get_full_type_value(name, schema, length, array) ==
    IF name = "char" /\ schema = "pg_catalog"
    THEN "\"char\"" \o array
    ELSE IF name = DATATYPE_TIME_WITH_TIMEZONE
    THEN "time" \o length \o " with time zone" \o array
    ELSE IF name = DATATYPE_TIME_WITHOUT_TIMEZONE
    THEN "time" \o length \o " without time zone" \o array
    ELSE IF name = DATATYPE_TIMESTAMP_WITH_TIMEZONE
    THEN "timestamp" \o length \o " with time zone" \o array
    ELSE IF name = DATATYPE_TIMESTAMP_WITHOUT_TIMEZONE
    THEN "timestamp" \o length \o " without time zone" \o array
    ELSE name \o length \o array

(* lines 316-321: the result is one character of typname, or IndexError    *)
_check_schema_in_name(typname, schema) ==
    IF Find(typname, schema \o "\".") >= 0
    THEN Item(typname, Len(schema) + 3)
    ELSE IF Find(typname, schema \o ".") >= 0
    THEN Item(typname, Len(schema) + 1)
    ELSE Str(typname)

(* lines 350-353: '[]' once per dimension *)
RECURSIVE ArraySuffix(_)
ArraySuffix(numdims) ==
    IF numdims > 0 THEN "[]" \o ArraySuffix(numdims - 1) ELSE ""

(* not numdims *)
NotNumdims(numdims) == numdims = NoneOpt \/ numdims = Some(0)

(* lines 332-356; numdims > 0 raises TypeError for None *)
get_full_type(nsp, typname, is_dup, numdims, typmod) ==
    LET schema == IF nsp # NoneOpt THEN nsp[1] ELSE ""
        checked == _check_schema_in_name(typname, schema)
    IN IF checked.k # "str" THEN checked
       ELSE
       LET name0 == checked.v
           under == StartsWith(name0, "_")
           numdims1 == IF under /\ NotNumdims(numdims) THEN Some(1) ELSE numdims
           name1 == IF under THEN From(name0, 1) ELSE name0
           brackets == EndsWith(name1, "[]")
           numdims2 == IF brackets /\ NotNumdims(numdims1) THEN Some(1) ELSE numdims1
           name2 == IF brackets THEN DropLast(name1, 2) ELSE name1
           name == IF StartsWith(name2, "\"") /\ EndsWith(name2, "\"")
                   THEN SubSeq(name2, 2, Len(name2) - 1) ELSE name2
       IN IF numdims2 = NoneOpt THEN Raised("TypeError")
          ELSE
          LET array == ArraySuffix(numdims2[1])
              length == IF typmod # -1 THEN _check_typmod(typmod, name) ELSE ""
          IN Str(_get_full_type_value(name, schema, length, array))

(* Inputs *)
MaxNumdims == 2
MaxTypmod == 10
MaxDigits == 2

(* The typmod of numeric(p, s) *)
PackNumeric(p, s) == Shl(p, 16) + s + 4

Schemas == {NoneOpt, Some("public"), Some("pg_catalog")}

TypeNames ==
    {"numeric", "_numeric", "numeric[]", "_numeric[]", "interval",
     "interval[]", "date",
     "bit", "character varying", "char", "\"char\"", "int4",
     DATATYPE_TIME_WITH_TIMEZONE, DATATYPE_TIME_WITHOUT_TIMEZONE,
     DATATYPE_TIMESTAMP_WITH_TIMEZONE, DATATYPE_TIMESTAMP_WITHOUT_TIMEZONE,
     "timestamp with time zone[]",
     "mytype", "public.mytype", "\"public\".mytype", "public.x", "public."}

Numdims == {NoneOpt} \cup {Some(n) : n \in -1..MaxNumdims}

Typmods ==
    (-2..MaxTypmod)
      \cup {PackNumeric(p, s) : p \in (0..MaxDigits) \cup {10, 1000},
                                s \in (0..MaxDigits) \cup {65535}}

TypeCalls ==
    { [f |-> "get_full_type", done |-> FALSE, nsp |-> nsp, typname |-> typname,
       is_dup |-> FALSE, numdims |-> numdims, typmod |-> typmod,
       out |-> NoReturn] :
         nsp \in Schemas, typname \in TypeNames, numdims \in Numdims,
         typmod \in Typmods }

ApplyGetFullType ==
    /\ fn.f = "get_full_type"
    /\ ~fn.done
    /\ fn' = [fn EXCEPT !.done = TRUE,
                        !.out = get_full_type(fn.nsp, fn.typname, fn.is_dup,
                                              fn.numdims, fn.typmod)]
    /\ UNCHANGED vacuumVars

InitType == VacuumInit /\ fn \in TypeCalls

SpecType == InitType /\ [][ApplyGetFullType]_vars

(* A finished get_full_type call with an int for numdims                   *)
Formatted == fn.f = "get_full_type" /\ fn.done /\ fn.numdims # NoneOpt

(* numdims copies of '[]', none for numdims <= 0 *)
Suffix(n) == IF n <= 0 THEN "" ELSE IF n = 1 THEN "[]"
             ELSE IF n = 2 THEN "[][]" ELSE "[][][]"

(* The dimensions rendered: an array marker on the name stands for one      *)
(* dimension when numdims is 0                                             *)
Dims ==
    IF fn.numdims = Some(0)
       /\ (StartsWith(fn.typname, "_") \/ EndsWith(fn.typname, "[]"))
    THEN 1 ELSE fn.numdims[1]

(* C7: a name qualified as "<schema>".<name> or <schema>.<name> is          *)
(* formatted as the whole of <name>; a name that is not qualified is       *)
(* formatted as it is (numdims 0, typmod -1).                              *)
SchemaPrefixStripped ==
    (Formatted /\ fn.numdims = Some(0) /\ fn.typmod = -1 /\ fn.nsp # NoneOpt) =>
        /\ \A rest \in {"mytype", "x"} :
              fn.typname \in {fn.nsp[1] \o "." \o rest,
                              "\"" \o fn.nsp[1] \o "\"." \o rest}
                 => fn.out = Str(rest \o Suffix(Dims))
        /\ fn.typname \in {"mytype", "int4"}
              => fn.out = Str(fn.typname \o Suffix(Dims))

(* C8: numeric with typmod = ((p << 16) | s) + 4, p >= 0, 0 <= s <= 0xFFFF, *)
(* is rendered numeric(p,s) and then the array suffix: the first number is *)
(* (typmod - 4) >> 16, the second (typmod - 4) & 0xFFFF, always there.     *)
NumericRendered ==
    (Formatted /\ fn.typname \in {"numeric", "_numeric", "numeric[]"}
               /\ fn.typmod >= 4) =>
        fn.out = Str("numeric(" \o ToString((fn.typmod - 4) \div 65536)
                       \o "," \o ToString((fn.typmod - 4) % 65536) \o ")"
                       \o Suffix(Dims))

(* numeric(10,2) *)
NumericRenderedWitness ==
    /\ Formatted
    /\ fn.typname = "numeric"
    /\ fn.typmod = 10 * 65536 + 2 + 4
    /\ fn.numdims = Some(0)
    /\ fn.out = Str("numeric(10,2)")

(* C9: the four with/without time zone names are rendered with typmod        *)
(* itself in parentheses between the word time or timestamp and the time   *)
(* zone words, then the array suffix; with typmod -1 there are no          *)
(* parentheses.                                                            *)
TimeZoneInterleaved ==
    \A word \in {"time", "timestamp"}, zone \in {" with time zone", " without time zone"} :
        (Formatted /\ fn.typname \in {word \o zone, word \o zone \o "[]"}) =>
            fn.out = Str(word
                         \o (IF fn.typmod = -1 THEN ""
                             ELSE "(" \o ToString(fn.typmod) \o ")")
                         \o zone \o Suffix(Dims))

(* timestamp(3) with time zone[] *)
TimeZoneInterleavedWitness ==
    /\ Formatted
    /\ fn.typname = "timestamp with time zone"
    /\ fn.typmod = 3
    /\ fn.numdims = Some(1)
    /\ fn.out = Str("timestamp(3) with time zone[]")

(* C10: interval with typmod 0 or more is rendered with typmod & 0xFFFF *)
(* in parentheses when that is at most 6, and as plain interval, with no   *)
(* parentheses, when it is more; then the array suffix.                    *)
IntervalClamped ==
    (Formatted /\ fn.typname \in {"interval", "interval[]"}
               /\ fn.numdims[1] >= 0 /\ fn.typmod >= 0) =>
        fn.out = Str("interval"
                     \o (IF fn.typmod % 65536 > 6 THEN ""
                         ELSE "(" \o ToString(fn.typmod % 65536) \o ")")
                     \o Suffix(Dims))

(* The names that carry no schema qualifier                                *)
Unqualified == {n \in TypeNames : Find(n, ".") = -1}

(* C11: a leading '_' and a trailing '[]' are taken off the name; numdims  *)
(* of 0 or None becomes 1, once, when either marker is there; the output   *)
(* ends with exactly numdims copies of '[]', none for numdims 0, None or   *)
(* negative; a numdims other than 0 is kept whatever the markers.          *)
ArrayDimensions ==
    (fn.f = "get_full_type" /\ fn.done /\ fn.typname \in Unqualified
        /\ fn.typmod = -1) =>
        LET marked == StartsWith(fn.typname, "_") \/ EndsWith(fn.typname, "[]")
            n == IF NotNumdims(fn.numdims)
                 THEN (IF marked THEN 1 ELSE 0) ELSE fn.numdims[1]
        IN /\ fn.out.k = "str"
           /\ ~StartsWith(fn.out.v, "_")
           /\ EndsWith(fn.out.v, Suffix(n))
           /\ ~EndsWith(fn.out.v, Suffix(n) \o "[]")

---------------------------------------------------------------------------
(* More of Python's string operations and the regular expressions used     *)

Digits == {"0", "1", "2", "3", "4", "5", "6", "7", "8", "9"}

(* The character s[i], "" past the end *)
CharAt(s, i) == IF 0 <= i /\ i < Len(s) THEN SubSeq(s, i + 1, i + 1) ELSE ""

(* s[:idx] for idx of either sign *)
Upto(s, idx) ==
    IF idx >= 0 THEN SubSeq(s, 1, idx)
    ELSE IF Len(s) + idx > 0 THEN SubSeq(s, 1, Len(s) + idx) ELSE ""

(* s.rstrip('[]'): every trailing '[' and ']' goes *)
RECURSIVE RStripBrackets(_)
RStripBrackets(s) ==
    IF Len(s) > 0 /\ CharAt(s, Len(s) - 1) \in {"[", "]"}
    THEN RStripBrackets(DropLast(s, 1)) ELSE s

(* \d+ at index i: the length of the longest run of digits from i *)
RECURSIVE DigitRun(_, _)
DigitRun(s, i) ==
    IF CharAt(s, i) \in Digits THEN 1 + DigitRun(s, i + 1) ELSE 0

(* re.sub(r'(\(\d+\))', '', s) *)
RECURSIVE SubParenDigits(_)
SubParenDigits(s) ==
    IF s = "" THEN ""
    ELSE IF CharAt(s, 0) = "(" /\ DigitRun(s, 1) >= 1
            /\ CharAt(s, 1 + DigitRun(s, 1)) = ")"
    THEN SubParenDigits(From(s, DigitRun(s, 1) + 2))
    ELSE CharAt(s, 0) \o SubParenDigits(From(s, 1))

---------------------------------------------------------------------------
(* DataTypeReader.parse_type_name                                          *)

(* lines 378-393; 'if idx' is false for index 0 only, -1 counts as true *)
StripDecoration(type_name) ==
    LET idx == Find(type_name, "(")
    IN IF idx # 0 /\ EndsWith(type_name, ")")
       THEN Upto(type_name, idx)
       ELSE IF idx # 0 /\ StartsWith(type_name, "time")
       THEN (IF Find(type_name, ")") # 1
             THEN SubParenDigits(type_name) ELSE type_name)
       ELSE IF StartsWith(type_name, "interval")
       THEN "interval"
       ELSE type_name

(* lines 373-398 *)
parse_type_name(type_name) ==
    LET is_array == EndsWith(type_name, "[]")
        stripped == IF is_array THEN RStripBrackets(type_name) ELSE type_name
        plain == StripDecoration(stripped)
    IN IF is_array THEN plain \o "[]" ELSE plain

(* Type strings as format_type and get_full_type write them *)
IntervalFields ==
    {"", " day", " second", " day to second", " hour to minute",
     " year to month"}

Precisions == {"", "(0)", "(3)", "(6)", "(10)"}

TimeZones == {"", " with time zone", " without time zone"}

ArrayMarks == {"", "[]", "[][]"}

FullTypes ==
    {"interval" \o q \o p \o a :
        q \in IntervalFields, p \in Precisions, a \in ArrayMarks}
    \cup {w \o p \o z \o a :
            w \in {"time", "timestamp"}, p \in Precisions, z \in TimeZones,
            a \in ArrayMarks}
    \cup {n \o a :
            n \in {"numeric", "numeric(10,2)", "character varying(5)",
                   "bit(1)", "date", "\"char\"", "int4", "interval()"},
            a \in ArrayMarks}

ParseTypeCalls ==
    { [f |-> "parse_type_name", done |-> FALSE, type_name |-> t,
       out |-> NoReturn] : t \in FullTypes }

ApplyParseTypeName ==
    /\ fn.f = "parse_type_name"
    /\ ~fn.done
    /\ fn' = [fn EXCEPT !.done = TRUE, !.out = Str(parse_type_name(fn.type_name))]
    /\ UNCHANGED vacuumVars

InitParseType == VacuumInit /\ fn \in ParseTypeCalls

SpecParseType == InitParseType /\ [][ApplyParseTypeName]_vars

(* C12: a type string that starts with interval, with or without fields,   *)
(* a (n) precision and a trailing '[]', is parsed to interval, and to      *)
(* interval[] when it ended in '[]'; a time or timestamp string with (n)   *)
(* before its time zone words loses the (n) and nothing else.              *)
SpecialCasesParsed ==
    (fn.f = "parse_type_name" /\ fn.done) =>
        /\ StartsWith(fn.type_name, "interval") =>
              fn.out = Str("interval" \o (IF EndsWith(fn.type_name, "[]")
                                          THEN "[]" ELSE ""))
        /\ \A w \in {"time", "timestamp"}, p \in Precisions \ {""},
              z \in TimeZones \ {""}, a \in {"", "[]"} :
              fn.type_name = w \o p \o z \o a => fn.out = Str(w \o z \o a)

---------------------------------------------------------------------------
(* DataTypeReader.parse_length_precision                                   *)

(* The lowest member of a set of indexes that is not empty *)
Lowest(S) == CHOOSE i \in S : \A j \in S : i <= j

(* re.search(r'(\d+)', s): <<>> for no match, else <<group 1>>.  The match  *)
(* starts at the first digit and \d+ takes the whole run.                   *)
SearchDigits(s) ==
    LET hits == {i \in 0..(Len(s) - 1) : DigitRun(s, i) >= 1}
    IN IF hits = {} THEN <<>>
       ELSE <<SubSeq(s, Lowest(hits) + 1, Lowest(hits) + DigitRun(s, Lowest(hits)))>>

(* \d+,\d+ matches at index i: a run of digits, a comma, a digit *)
PairAt(s, i) ==
    /\ DigitRun(s, i) >= 1
    /\ CharAt(s, i + DigitRun(s, i)) = ","
    /\ DigitRun(s, i + DigitRun(s, i) + 1) >= 1

(* re.search(r'(\d+),(\d+)', s): <<>> for no match, else <<group 1, group 2>> *)
SearchPair(s) ==
    LET hits == {i \in 0..(Len(s) - 1) : PairAt(s, i)}
        i == Lowest(hits)
        j == i + DigitRun(s, i) + 1
    IN IF hits = {} THEN <<>>
       ELSE <<SubSeq(s, i + 1, j - 1), SubSeq(s, j + 1, j + DigitRun(s, j))>>

(* lines 415-417 whatever is_precision says *)
LengthOnly(fulltype, is_tlength, is_precision) ==
    IF is_tlength /\ SearchDigits(fulltype) # <<>>
    THEN <<Str(SearchDigits(fulltype)[1]), None>>
    ELSE <<None, None>>

(* lines 409-419: the pair (t_len, t_prec) *)
parse_length_precision(fulltype, is_tlength, is_precision) ==
    IF is_tlength
    THEN IF is_precision
         THEN IF SearchPair(fulltype) # <<>>
              THEN <<Str(SearchPair(fulltype)[1]), Str(SearchPair(fulltype)[2])>>
              ELSE <<None, None>>
         ELSE IF SearchDigits(fulltype) # <<>>
              THEN <<Str(SearchDigits(fulltype)[1]), None>>
              ELSE <<None, None>>
    ELSE <<None, None>>

LengthTypes ==
    {"numeric", "numeric(10,2)", "numeric(10,2)[]", "numeric(1000,65535)",
     "numeric(5)", "numeric(5,)", "numeric(,5)", "character varying(255)",
     "bit(1)", "bit(1)[]", "int4", "int4[]", "date", "interval(6)",
     "time(3) with time zone", "timestamp(0) without time zone[]",
     "a1 b22,3", "1,2,3", "7", "12,", ""}
    \cup {"t" \o a \o "," \o b \o "x" : a, b \in {"", "0", "12"}}

LengthCalls ==
    { [f |-> "parse_length_precision", done |-> FALSE, fulltype |-> t,
       is_tlength |-> l, is_precision |-> p, out |-> NoReturn] :
         t \in LengthTypes, l \in BOOLEAN, p \in BOOLEAN }

ApplyParseLengthPrecision ==
    /\ fn.f = "parse_length_precision"
    /\ ~fn.done
    /\ fn' = [fn EXCEPT !.done = TRUE,
                        !.out = parse_length_precision(fn.fulltype, fn.is_tlength,
                                                       fn.is_precision)]
    /\ UNCHANGED vacuumVars

InitLength == VacuumInit /\ fn \in LengthCalls

SpecLength == InitLength /\ [][ApplyParseLengthPrecision]_vars

(* The indexes i..j of s hold a whole run of digits *)
IsRun(s, i, j) ==
    /\ 0 <= i /\ i <= j /\ j < Len(s)
    /\ \A n \in i..j : CharAt(s, n) \in Digits
    /\ CharAt(s, i - 1) \notin Digits
    /\ CharAt(s, j + 1) \notin Digits

(* The runs of digits of s that a comma and a digit follow, with the run   *)
(* after the comma, as <<i, j, k>>                                          *)
Pairs(s) ==
    {ijk \in (0..Len(s)) \X (0..Len(s)) \X (0..Len(s)) :
        /\ IsRun(s, ijk[1], ijk[2])
        /\ CharAt(s, ijk[2] + 1) = ","
        /\ IsRun(s, ijk[2] + 2, ijk[3])}

(* C13: (None, None) when is_tlength is false or fulltype has no digit;    *)
(* with is_tlength and not is_precision, the first run of digits and None; *)
(* with both, the two numbers of the first digits,digits; the precision is *)
(* None whenever is_precision is false.                                    *)
LengthPrecisionParsed ==
    (fn.f = "parse_length_precision" /\ fn.done) =>
        LET s == fn.fulltype
            digitAt == {i \in 0..(Len(s) - 1) : CharAt(s, i) \in Digits}
        IN /\ (~fn.is_tlength \/ digitAt = {}) => fn.out = <<None, None>>
           /\ (fn.is_tlength /\ ~fn.is_precision /\ digitAt # {}) =>
                \E j \in 0..(Len(s) - 1) :
                    /\ IsRun(s, Lowest(digitAt), j)
                    /\ fn.out = <<Str(SubSeq(s, Lowest(digitAt) + 1, j + 1)), None>>
           /\ (fn.is_tlength /\ fn.is_precision /\ Pairs(s) # {}) =>
                \E ijk \in Pairs(s) :
                    /\ \A other \in Pairs(s) : ijk[1] <= other[1]
                    /\ fn.out = <<Str(SubSeq(s, ijk[1] + 1, ijk[2] + 1)),
                                  Str(SubSeq(s, ijk[2] + 3, ijk[3] + 1))>>
           /\ ~fn.is_precision => fn.out[2] = None

(* numeric(10,2) with both flags gives ('10', '2') *)
LengthPrecisionParsedWitness ==
    /\ fn.f = "parse_length_precision" /\ fn.done
    /\ fn.fulltype = "numeric(10,2)"
    /\ fn.is_tlength /\ fn.is_precision
    /\ fn.out = <<Str("10"), Str("2")>>

---------------------------------------------------------------------------
(* parse_rule_definition                                                   *)

(* \s *)
Whitespace == {" ", "\t", "\n"}

(* \s+ at index i: the length of the longest run of whitespace from i *)
RECURSIVE WsRun(_, _)
WsRun(s, i) ==
    IF CharAt(s, i) \in Whitespace THEN 1 + WsRun(s, i + 1) ELSE 0

(* The word w stands at index i of s *)
At(s, i, w) ==
    0 <= i /\ i + Len(w) <= Len(s) /\ SubSeq(s, i + 1, i + Len(w)) = w

Highest(S) == CHOOSE i \in S : \A j \in S : j <= i

(* (?:TO)\s+(?:[\s\S]+?)(?:DO) from a TO at index p: the index of the DO   *)
(* the match ends with, -1 for no match.  \s+ takes the whole run first    *)
(* and the lazy part then grows from one character; only when that fails   *)
(* does \s+ give back its last character to the lazy part.                 *)
DoAfterTo(s, p) ==
    LET run == WsRun(s, p + 2)
        later == {q \in (p + run + 3)..(Len(s) - 2) : At(s, q, "DO")}
    IN IF run = 0 THEN -1
       ELSE IF later # {} THEN Lowest(later)
       ELSE IF run >= 2 /\ At(s, p + run + 2, "DO") THEN p + run + 2
       ELSE -1

(* (?:ON)\s+(?:[\s\S]+?)(?:TO)... from an ON at index i: the index of the  *)
(* TO the match goes through, -1 for no match                              *)
ToAfterOn(s, i) ==
    LET run == WsRun(s, i + 2)
        later == {p \in (i + run + 3)..(Len(s) - 2) :
                     At(s, p, "TO") /\ DoAfterTo(s, p) # -1}
    IN IF run = 0 THEN -1
       ELSE IF later # {} THEN Lowest(later)
       ELSE IF run >= 2 /\ At(s, i + run + 2, "TO")
               /\ DoAfterTo(s, i + run + 2) # -1 THEN i + run + 2
       ELSE -1

(* lines 490-492: re.search of ON\s+...TO\s+...DO; <<>> for no match, else *)
(* <<group 1>>                                                             *)
SearchOnToDo(s) ==
    LET hits == {i \in 0..(Len(s) - 2) : At(s, i, "ON") /\ ToAfterOn(s, i) # -1}
        i == Lowest(hits)
    IN IF hits = {} THEN <<>>
       ELSE <<SubSeq(s, i + 1, DoAfterTo(s, ToAfterOn(s, i)) + 2)>>

(* The ')' of s after index open that whitespace and DO follow *)
Closings(s, open) ==
    {c \in (open + 1)..(Len(s) - 1) :
        /\ CharAt(s, c) = ")"
        /\ WsRun(s, c + 1) >= 1
        /\ At(s, c + 1 + WsRun(s, c + 1), "DO")}

(* lines 496-497: re.search of WHERE\s+(\([\s\S]*\))\s+DO; the greedy      *)
(* middle runs to the last ')' that whitespace and DO follow               *)
SearchWhere(s) ==
    LET open(h) == h + 5 + WsRun(s, h + 5)
        hits == {h \in 0..(Len(s) - 5) :
                    /\ At(s, h, "WHERE")
                    /\ WsRun(s, h + 5) >= 1
                    /\ CharAt(s, open(h)) = "("
                    /\ Closings(s, open(h)) # {}}
        h == Lowest(hits)
    IN IF hits = {} THEN <<>>
       ELSE <<SubSeq(s, open(h) + 1, Highest(Closings(s, open(h))) + 1)>>

(* The index where group 1 of line 507 starts for a DO at index d: after   *)
(* DO\s+ and, when it is there, INSTEAD\s+                                 *)
StatementStart(s, d) ==
    LET x == d + 2 + WsRun(s, d + 2)
    IN IF At(s, x, "INSTEAD") /\ WsRun(s, x + 7) >= 1
       THEN x + 7 + WsRun(s, x + 7) ELSE x

Semicolons(s, from) == {k \in from..(Len(s) - 1) : CharAt(s, k) = ";"}

(* lines 506-507: re.search of DO\s+, an optional INSTEAD\s+, a greedy     *)
(* group of any characters and ';': the group runs to the last ';'         *)
SearchDo(s) ==
    LET hits == {d \in 0..(Len(s) - 2) :
                    /\ At(s, d, "DO")
                    /\ WsRun(s, d + 2) >= 1
                    /\ Semicolons(s, StatementStart(s, d)) # {}}
        d == Lowest(hits)
    IN IF hits = {} THEN <<>>
       ELSE <<SubSeq(s, StatementStart(s, d) + 1,
                     Highest(Semicolons(s, StatementStart(s, d))))>>

(* lines 502-503 and 513-514 *)
StripParens(s) ==
    IF StartsWith(s, "(") /\ EndsWith(s, ")") THEN SubSeq(s, 2, Len(s) - 1) ELSE s

(* lines 489-503 *)
RuleCondition(data_def) ==
    IF SearchOnToDo(data_def) # <<>>
       /\ SearchWhere(SearchOnToDo(data_def)[1]) # <<>>
    THEN StripParens(SearchWhere(SearchOnToDo(data_def)[1])[1])
    ELSE ""

(* lines 506-514 *)
RuleStatement(data_def) ==
    IF SearchDo(data_def) # <<>> THEN StripParens(SearchDo(data_def)[1]) ELSE ""

(* lines 517-522 *)
EventTable ==
    [key \in {"1", "2", "3", "4"} |->
        CASE key = "1" -> "SELECT" [] key = "2" -> "UPDATE"
          [] key = "3" -> "INSERT" [] key = "4" -> "DELETE"]

(* str(e) of the exceptions the function body can raise *)
IndexErrorText == "list index out of range"
TypeErrorText == "expected string or bytes-like object, got 'NoneType'"
KeyErrorText(key) ==
    IF key.k = "str" THEN "'" \o key.v \o "'" ELSE ToString(key.i)

(* line 527 *)
InternalServerError(errormsg) ==
    [k |-> "internal_server_error", errormsg |-> errormsg]

(* line 528: res_data, the object that is res['rows'][0] *)
RetRow == [k |-> "row", index |-> 1]

(* A dict with key set to value *)
SetItem(row, key, value) ==
    [f \in DOMAIN row \cup {key} |-> IF f = key THEN value ELSE row[f]]

(* The assignments of lines 523-525 made before the lookup of line 517 *)
SetColumnsEventLast(row, statement, condition) ==
    LET filled == SetItem(SetItem(SetItem(row, "do_instead", row.is_instead),
                                  "statements", statement),
                          "condition", condition)
    IN IF "ev_type" \notin DOMAIN row
       THEN [row |-> filled, exc |-> <<KeyErrorText(Str("ev_type"))>>]
       ELSE IF ~(row.ev_type.k = "str" /\ row.ev_type.v \in DOMAIN EventTable)
       THEN [row |-> filled, exc |-> <<KeyErrorText(row.ev_type)>>]
       ELSE [row |-> SetItem(filled, "event", EventTable[row.ev_type.v]),
             exc |-> <<>>]

(* lines 517-525 on the row, in order: the row as it is left, and the text *)
(* of the exception if one was raised                                      *)
SetColumns(row, statement, condition) ==
    IF "ev_type" \notin DOMAIN row
    THEN [row |-> row, exc |-> <<KeyErrorText(Str("ev_type"))>>]
    ELSE IF ~(row.ev_type.k = "str" /\ row.ev_type.v \in DOMAIN EventTable)
    THEN [row |-> row, exc |-> <<KeyErrorText(row.ev_type)>>]
    ELSE LET evented == SetItem(row, "event", EventTable[row.ev_type.v])
         IN IF "is_instead" \notin DOMAIN row
            THEN [row |-> evented, exc |-> <<KeyErrorText(Str("is_instead"))>>]
            ELSE [row |-> SetItem(SetItem(SetItem(evented,
                                "do_instead", row.is_instead),
                                "statements", statement),
                                "condition", condition),
                  exc |-> <<>>]

(* lines 482-528: what is returned, and res['rows'] as the call leaves it  *)
parse_rule_definition(res) ==
    IF Len(res.rows) = 0
    THEN [out |-> InternalServerError(IndexErrorText), rows |-> res.rows]
    ELSE IF "definition" \notin DOMAIN res.rows[1]
    THEN [out |-> InternalServerError(KeyErrorText(Str("definition"))),
          rows |-> res.rows]
    ELSE IF res.rows[1].definition = None
    THEN [out |-> InternalServerError(TypeErrorText), rows |-> res.rows]
    ELSE LET data_def == res.rows[1].definition.v
             set == SetColumns(res.rows[1], RuleStatement(data_def),
                               RuleCondition(data_def))
         IN [out |-> IF set.exc = <<>> THEN RetRow
                     ELSE InternalServerError(set.exc[1]),
             rows |-> [res.rows EXCEPT ![1] = set.row]]

(* Rule definitions as pg_get_ruledef writes them:                         *)
(* ... ON <event> TO <table> [WHERE (<cond>)] DO [INSTEAD] <stmt>;         *)
RuleText(parts) ==
    "CREATE RULE r AS ON " \o parts.event \o " TO " \o parts.table
      \o (IF parts.cond = NoneOpt THEN "" ELSE " WHERE (" \o parts.cond[1] \o ")")
      \o " DO " \o (IF parts.instead THEN "INSTEAD " ELSE "")
      \o parts.stmt \o ";"

RuleParts ==
    [event : {"DELETE", "t"},
     table : {"public", "\"DOCS\""},
     cond : {NoneOpt, Some("x>1"), Some("(a > 1) AND (b < 2)"),
             Some("s = 'DONE'")},
     instead : BOOLEAN,
     stmt : {"NOTHING", "(DELETE FROM t)", "UPDATE u SET a = 1",
             "(INSERT INTO l VALUES (1); DELETE FROM m;)"}]

EvTypes == {Str("1"), Str("2"), Str("3"), Str("4"), Str("5"), PyInt(1)}

RuleDefects ==
    {"none", "no rows", "no definition", "null definition", "no ev_type"}

(* res as the properties query answers, with the defect *)
RuleResult(parts, ev_type, is_instead, defect) ==
    [rows |->
        CASE defect = "no rows" -> <<>>
          [] defect = "no definition" ->
                <<[ev_type |-> ev_type, is_instead |-> is_instead]>>
          [] defect = "null definition" ->
                <<[definition |-> None, ev_type |-> ev_type,
                   is_instead |-> is_instead]>>
          [] defect = "no ev_type" ->
                <<[definition |-> Str(RuleText(parts)),
                   is_instead |-> is_instead]>>
          [] OTHER ->
                <<[definition |-> Str(RuleText(parts)), ev_type |-> ev_type,
                   is_instead |-> is_instead]>>]

RuleCalls ==
    { [f |-> "parse_rule_definition", done |-> FALSE, parts |-> parts,
       ev_type |-> ev_type, defect |-> defect,
       res |-> RuleResult(parts, ev_type, is_instead, defect),
       rows |-> <<>>, out |-> NoReturn] :
         parts \in RuleParts, ev_type \in EvTypes, is_instead \in BOOLEAN,
         defect \in RuleDefects }

ApplyParseRuleDefinition ==
    /\ fn.f = "parse_rule_definition"
    /\ ~fn.done
    /\ fn' = [fn EXCEPT !.done = TRUE,
                        !.out = parse_rule_definition(fn.res).out,
                        !.rows = parse_rule_definition(fn.res).rows]
    /\ UNCHANGED vacuumVars

InitRule == VacuumInit /\ fn \in RuleCalls

SpecRule == InitRule /\ [][ApplyParseRuleDefinition]_vars

(* A finished call on a row with its definition and a listed ev_type       *)
RuleSucceeds ==
    /\ fn.f = "parse_rule_definition" /\ fn.done
    /\ fn.defect = "none"
    /\ fn.ev_type \in {Str("1"), Str("2"), Str("3"), Str("4")}

(* C14: for a definition ... ON <event> TO <table> [WHERE (<cond>)] DO     *)
(* [INSTEAD] <stmt>; the row returned has condition <cond> ('' without a   *)
(* WHERE), statements <stmt> less one layer of enclosing parentheses,      *)
(* do_instead the row's is_instead, and event SELECT, UPDATE, INSERT or    *)
(* DELETE for ev_type 1, 2, 3 or 4.                                        *)
RuleParsed ==
    RuleSucceeds =>
        LET stmt == fn.parts.stmt
        IN /\ fn.out = RetRow
           /\ fn.rows[1].condition =
                 (IF fn.parts.cond = NoneOpt THEN "" ELSE fn.parts.cond[1])
           /\ fn.rows[1].statements =
                 (IF CharAt(stmt, 0) = "(" /\ CharAt(stmt, Len(stmt) - 1) = ")"
                  THEN SubSeq(stmt, 2, Len(stmt) - 1) ELSE stmt)
           /\ fn.rows[1].do_instead = fn.res.rows[1].is_instead
           /\ fn.rows[1].event =
                 (CASE fn.ev_type = Str("1") -> "SELECT"
                    [] fn.ev_type = Str("2") -> "UPDATE"
                    [] fn.ev_type = Str("3") -> "INSERT"
                    [] fn.ev_type = Str("4") -> "DELETE")

(* C15: when the extraction fails (no rows, no definition, an ev_type that *)
(* is not in the event table) the call returns the server-error result     *)
(* with the text of the exception, never raises, and the rows are as they  *)
(* were: none has event, do_instead, statements or condition.              *)
FailureLeavesRows ==
    (fn.f = "parse_rule_definition" /\ fn.done) =>
        /\ fn.out.k \in {"row", "internal_server_error"}
        /\ ~RuleSucceeds =>
              /\ fn.out.k = "internal_server_error"
              /\ fn.out.errormsg =
                    (CASE fn.defect = "no rows" -> "list index out of range"
                       [] fn.defect = "no definition" -> "'definition'"
                       [] fn.defect = "null definition" ->
                            "expected string or bytes-like object, got 'NoneType'"
                       [] fn.defect = "no ev_type" -> "'ev_type'"
                       [] OTHER -> IF fn.ev_type = PyInt(1) THEN "1" ELSE "'5'")
        /\ fn.out.k = "internal_server_error" =>
              /\ fn.rows = fn.res.rows
              /\ \A i \in 1..Len(fn.rows) :
                    DOMAIN fn.rows[i] \cap {"event", "do_instead", "statements",
                                            "condition"} = {}

(* ev_type '5' on a row with its definition: the error carries "'5'" and   *)
(* the row is as it was                                                    *)
FailureLeavesRowsWitness ==
    /\ fn.f = "parse_rule_definition" /\ fn.done
    /\ fn.defect = "none" /\ fn.ev_type = Str("5")
    /\ fn.out = InternalServerError("'5'")
    /\ fn.rows = fn.res.rows
    /\ DOMAIN fn.rows[1] = {"definition", "ev_type", "is_instead"}

---------------------------------------------------------------------------
(* DataTypeReader.get_types                                                *)

(* lines 195-224: the type OIDs of each group *)
LengthOids == {1560, 1561, 1562, 1563, 1042, 1043, 1014, 1015}
DateOids == {1083, 1114, 1115, 1183, 1184, 1185, 1186, 1187, 1266, 1270}
PrecisionOids == {1231, 1700}

(* lines 191-230 for an OID: <<length, precision, typeval>> *)
get_length_precision(elemoid) ==
    LET typeval ==
          IF Truthy(elemoid)
          THEN IF elemoid \in LengthOids THEN "L"
               ELSE IF elemoid \in DateOids THEN "D"
               ELSE IF elemoid \in PrecisionOids THEN "P"
               ELSE " "
          ELSE ""
    IN <<typeval = "P" \/ typeval \in {"L", "D"}, typeval = "P", typeval>>

(* lines 130-143: <<min_val, max_val>> *)
_types_length_checks(length, typeval, precision) ==
    IF length
    THEN LET min_val == IF typeval = "D" THEN 0 ELSE 1
         IN IF precision THEN <<min_val, 1000>>
            ELSE IF Truthy(min_val) THEN <<min_val, 2147483647>>
            ELSE <<min_val, IF typeval = "D" THEN 6 ELSE 10>>
    ELSE <<0, 0>>

(* str(e) of the UnboundLocalError for typeval *)
UnboundLocalErrorText ==
    "cannot access local variable 'typeval' where it is not associated with a value"

(* lines 176-182 *)
TypeRecord(row, typeval, precision, length, min_val, max_val) ==
    [label |-> row.typname, value |-> row.typname, typval |-> typeval,
     precision |-> precision, length |-> length, min_val |-> min_val,
     max_val |-> max_val, is_collatable |-> row.is_collatable, oid |-> row.oid]

(* lines 162-187 from row i on; typeval is the local variable, <<>> while  *)
(* nothing was assigned to it, and lives across the rows of the loop       *)
RECURSIVE TypesLoop(_, _, _, _)
TypesLoop(rows, i, typeval, res) ==
    IF i > Len(rows) THEN [status |-> TRUE, value |-> RetRows(res)]
    ELSE LET row == rows[i]
             got == IF Truthy(row.elemoid)
                    THEN get_length_precision(row.elemoid)
                    ELSE <<FALSE, FALSE, "">>
             length == got[1]
             precision == got[2]
             bound == IF Truthy(row.elemoid) THEN Some(got[3]) ELSE typeval
         IN IF bound = NoneOpt
            THEN [status |-> FALSE, value |-> Str(UnboundLocalErrorText)]
            ELSE LET checks == _types_length_checks(length, bound[1], precision)
                 IN TypesLoop(rows, i + 1, bound,
                              Append(res, TypeRecord(row, bound[1], precision,
                                                     length, checks[1], checks[2])))

(* lines 155-187 given what _get_types_sql answered *)
get_types(status, rset) ==
    IF ~status THEN [status |-> status, value |-> rset]
    ELSE TypesLoop(rset.rows, 1, NoneOpt, <<>>)

MaxRows == 3

(* Rows of the types query: an element type of each group, and a type      *)
(* with no element type                                                    *)
TypeRows ==
    { [typname |-> "bit", elemoid |-> 1560, is_collatable |-> FALSE, oid |-> 1560],
      [typname |-> "interval", elemoid |-> 1186, is_collatable |-> FALSE, oid |-> 1186],
      [typname |-> "numeric", elemoid |-> 1700, is_collatable |-> FALSE, oid |-> 1700],
      [typname |-> "int4", elemoid |-> 23, is_collatable |-> FALSE, oid |-> 23],
      [typname |-> "mytype", elemoid |-> 0, is_collatable |-> TRUE, oid |-> 16385] }

RowSeqs == UNION { [1..n -> TypeRows] : n \in 0..MaxRows }

TypesCalls ==
    { [f |-> "get_types", done |-> FALSE, status |-> TRUE,
       rset |-> [rows |-> rows], out |-> NoReturn] : rows \in RowSeqs }
    \cup { [f |-> "get_types", done |-> FALSE, status |-> FALSE,
            rset |-> RetResponse, out |-> NoReturn] }

ApplyGetTypes ==
    /\ fn.f = "get_types"
    /\ ~fn.done
    /\ fn' = [fn EXCEPT !.done = TRUE, !.out = get_types(fn.status, fn.rset)]
    /\ UNCHANGED vacuumVars

InitTypes == VacuumInit /\ fn \in TypesCalls

SpecTypes == InitTypes /\ [][ApplyGetTypes]_vars

(* C17: for the rows of a successful query get_types returns True and one  *)
(* record per row, in order; a record's typval, length, precision, min_val *)
(* and max_val are those of the row's own elemoid, the same as for the row *)
(* alone; a row with elemoid 0 has length and precision False and min_val  *)
(* and max_val 0.                                                          *)
RowsIndependent ==
    (fn.f = "get_types" /\ fn.done /\ fn.status) =>
        /\ fn.out.status = TRUE
        /\ fn.out.value.k = "rows"
        /\ Len(fn.out.value.rows) = Len(fn.rset.rows)
        /\ \A i \in 1..Len(fn.rset.rows) :
              LET row == fn.rset.rows[i]
                  rec == fn.out.value.rows[i]
                  alone == get_types(TRUE, [rows |-> <<row>>])
              IN /\ rec.label = row.typname /\ rec.oid = row.oid
                 /\ alone.status = TRUE
                 /\ rec = alone.value.rows[1]
                 /\ row.elemoid = 0 =>
                       /\ rec.length = FALSE /\ rec.precision = FALSE
                       /\ rec.min_val = 0 /\ rec.max_val = 0

---------------------------------------------------------------------------
(* get_full_type followed by parse_type_name                               *)

BaseTypeNames ==
    {"numeric", "character varying", "bit", "interval", "date", "char",
     DATATYPE_TIME_WITH_TIMEZONE, DATATYPE_TIME_WITHOUT_TIMEZONE,
     DATATYPE_TIMESTAMP_WITH_TIMEZONE, DATATYPE_TIMESTAMP_WITHOUT_TIMEZONE}

RoundTripCalls ==
    { [f |-> "round_trip", step |-> "start", nsp |-> nsp, typname |-> typname,
       is_dup |-> FALSE, numdims |-> Some(numdims), typmod |-> typmod,
       full |-> NoReturn, out |-> NoReturn] :
         nsp \in Schemas, typname \in BaseTypeNames, numdims \in 0..MaxNumdims,
         typmod \in Typmods }

(* The caller formats the type *)
FormatType ==
    /\ fn.f = "round_trip"
    /\ fn.step = "start"
    /\ fn' = [fn EXCEPT !.step = "formatted",
                        !.full = get_full_type(fn.nsp, fn.typname, fn.is_dup,
                                               fn.numdims, fn.typmod)]
    /\ UNCHANGED vacuumVars

(* and hands the string to parse_type_name *)
ParseFormatted ==
    /\ fn.f = "round_trip"
    /\ fn.step = "formatted"
    /\ fn' = [fn EXCEPT !.step = "parsed",
                        !.out = IF fn.full.k = "str"
                                THEN Str(parse_type_name(fn.full.v))
                                ELSE fn.full]
    /\ UNCHANGED vacuumVars

InitRoundTrip == VacuumInit /\ fn \in RoundTripCalls

NextRoundTrip == FormatType \/ ParseFormatted

SpecRoundTrip == InitRoundTrip /\ [][NextRoundTrip]_vars

(* C18: for a base type name, numdims of 0 or more and a typmod, parsing   *)
(* the formatted type gives the type as it is formatted with typmod -1:    *)
(* the length and precision go, the name, the time zone words and every    *)
(* '[]' stay.                                                              *)
ParserUndoesFormatter ==
    (fn.f = "round_trip" /\ fn.step = "parsed" /\ fn.typmod >= -1) =>
        fn.out = get_full_type(fn.nsp, fn.typname, fn.is_dup, fn.numdims, -1)

====
